---- MODULE Spec2Model ----
(***************************************************************************)
(* jsnom: a JSON parser written with nom parser combinators.               *)
(*                                                                         *)
(* src/src/parse.rs holds the productions (nom_null, nom_bool, nom_string, *)
(* nom_array, nom_number, nom_object), the dispatcher nom_parse and the    *)
(* whitespace wrapper ws; src/src/lib.rs holds JsonValue, Error and the    *)
(* public entrypoints parse, parse_null, ... parse_object.                 *)
(*                                                                         *)
(* A text is a sequence of characters; a character is a one-character      *)
(* string, or "U+XXXX" for a scalar value outside the table CodePoint.     *)
(* A parser is a term built from the nom combinators (char, tag, alt,      *)
(* delimited, ...); Run(p, s) applies the parser p to the text s and       *)
(* gives an IResult:                                                       *)
(*   Ok(rest, val)   the parser matched, rest is the remaining suffix      *)
(*   Err(errors)     Err(nom::Err::Error(VerboseError {errors}))           *)
(*   Panicked        the call unwound with a panic (a failed unwrap())     *)
(* An error frame is (pos, kind): pos is the suffix of the input at which  *)
(* the failure was recorded, as VerboseError<&str> stores it.              *)
(***************************************************************************)
EXTENDS Integers, Sequences, FiniteSets, TLC

VARIABLES input, shape, entry, result

vars == <<input, shape, entry, result>>

(* ------------------------------------------------------------------ *)
(* Characters                                                          *)
(* ------------------------------------------------------------------ *)

\* Unicode scalar values of the characters the inputs are written with.
CodePoint ==
    (" " :> 32) @@ ("\t" :> 9) @@ ("\n" :> 10) @@ ("\r" :> 13) @@
    ("\"" :> 34) @@ ("\\" :> 92) @@ ("+" :> 43) @@ ("," :> 44) @@
    ("-" :> 45) @@ ("." :> 46) @@ (":" :> 58) @@ ("[" :> 91) @@
    ("]" :> 93) @@ ("{" :> 123) @@ ("}" :> 125) @@ ("/" :> 47) @@
    ("0" :> 48) @@ ("1" :> 49) @@ ("2" :> 50) @@ ("3" :> 51) @@
    ("4" :> 52) @@ ("5" :> 53) @@ ("6" :> 54) @@ ("7" :> 55) @@
    ("8" :> 56) @@ ("9" :> 57) @@ ("A" :> 65) @@ ("D" :> 68) @@
    ("E" :> 69) @@ ("a" :> 97) @@ ("b" :> 98) @@ ("d" :> 100) @@
    ("e" :> 101) @@ ("f" :> 102) @@ ("g" :> 103) @@ ("k" :> 107) @@
    ("l" :> 108) @@ ("n" :> 110) @@ ("r" :> 114) @@ ("s" :> 115) @@
    ("t" :> 116) @@ ("u" :> 117) @@ ("x" :> 120)

HexDigits == <<"0", "1", "2", "3", "4", "5", "6", "7",
               "8", "9", "A", "B", "C", "D", "E", "F">>

\* char::from_u32 on a valid scalar value: the character with that code point.
Chr(cp) ==
    IF \E c \in DOMAIN CodePoint : CodePoint[c] = cp
    THEN CHOOSE c \in DOMAIN CodePoint : CodePoint[c] = cp
    ELSE "U+" \o HexDigits[(cp \div 4096) + 1] \o HexDigits[((cp \div 256) % 16) + 1]
              \o HexDigits[((cp \div 16) % 16) + 1] \o HexDigits[(cp % 16) + 1]

\* The value of one digit in radix 16 (char::to_digit(16)), -1 when it is none.
HexVal(c) ==
    CASE c \in {"0", "1", "2", "3", "4", "5", "6", "7", "8", "9"} -> CodePoint[c] - 48
      [] c = "a" \/ c = "A" -> 10
      [] c = "b" \/ c = "B" -> 11
      [] c = "c" \/ c = "C" -> 12
      [] c = "d" \/ c = "D" -> 13
      [] c = "e" \/ c = "E" -> 14
      [] c = "f" \/ c = "F" -> 15
      [] OTHER -> -1

\* char::is_whitespace restricted to what multispace0 accepts: " \t\r\n".
Whitespace == {" ", "\t", "\r", "\n"}

Digits == {"0", "1", "2", "3", "4", "5", "6", "7", "8", "9"}

NonZeroDigits == Digits \ {"0"}

(* ------------------------------------------------------------------ *)
(* JsonValue (lib.rs) and IResult                                      *)
(* ------------------------------------------------------------------ *)

Null == [type |-> "Null"]

Bool(b) == [type |-> "Bool", b |-> b]

String(cs) == [type |-> "String", s |-> cs]

Array(vs) == [type |-> "Array", items |-> vs]

Number(n) == [type |-> "Number", n |-> n]

Object(ps) == [type |-> "Object", pairs |-> ps]

\* Option<T>.
None == [type |-> "None"]

Some(v) == [type |-> "Some", v |-> v]

Ok(rest, val) == [tag |-> "Ok", rest |-> rest, val |-> val, errors |-> <<>>]

Err(errors) == [tag |-> "Err", rest |-> <<>>, val |-> None, errors |-> errors]

Panicked == [tag |-> "Panic", rest |-> <<>>, val |-> None, errors |-> <<>>]

\* One (input, VerboseErrorKind) entry of VerboseError::errors.
Frame(pos, kind) == [pos |-> pos, kind |-> kind]

(* ------------------------------------------------------------------ *)
(* The nom combinators parse.rs imports, as parser terms               *)
(* ------------------------------------------------------------------ *)

multispace0 == [op |-> "multispace0"]

digit0 == [op |-> "digit0"]

digit1 == [op |-> "digit1"]

char(c) == [op |-> "char", c |-> c]

tag(t) == [op |-> "tag", t |-> t]

tag_no_case(t) == [op |-> "tag_no_case", t |-> t]

take(n) == [op |-> "take", n |-> n]

one_of(list) == [op |-> "one_of", list |-> list]

none_of(list) == [op |-> "none_of", list |-> list]

opt(p) == [op |-> "opt", p |-> p]

\* map(p, f): f names the closure, which Apply evaluates.
map(p, f) == [op |-> "map", p |-> p, f |-> f]

value(v, p) == [op |-> "value", v |-> v, p |-> p]

alt(ps) == [op |-> "alt", ps |-> ps]

tuple(ps) == [op |-> "tuple", ps |-> ps]

pair(a, b) == tuple(<<a, b>>)

\* The i-th component of a tuple parser's value.
nth(i, p) == [op |-> "nth", i |-> i, p |-> p]

preceded(a, b) == nth(2, tuple(<<a, b>>))

terminated(a, b) == nth(1, tuple(<<a, b>>))

delimited(a, b, c) == nth(2, tuple(<<a, b, c>>))

many0(p) == [op |-> "many0", p |-> p]

separated_list0(sep, p) == [op |-> "separated_list0", sep |-> sep, p |-> p]

\* A call of one of the productions by name (the recursion of the grammar).
call(name) == [op |-> "call", name |-> name]

(* ------------------------------------------------------------------ *)
(* The closures the productions map their matches through             *)
(* ------------------------------------------------------------------ *)

\* What a closure gives: a value, or a panic (a failed unwrap, unreachable!()).
Returned(v) == [panic |-> FALSE, v |-> v]

Panics == [panic |-> TRUE, v |-> None]

\* The value of a run of decimal digits.
RECURSIVE DecVal(_)
DecVal(ds) ==
    IF ds = <<>> THEN 0
    ELSE 10 * DecVal(SubSeq(ds, 1, Len(ds) - 1)) + (CodePoint[ds[Len(ds)]] - 48)

\* The value of a run of hexadecimal digits; -1 when one of them is no digit.
RECURSIVE HexRun(_)
HexRun(ds) ==
    IF ds = <<>> THEN 0
    ELSE LET hi == HexRun(SubSeq(ds, 1, Len(ds) - 1))
             lo == HexVal(ds[Len(ds)])
         IN IF hi < 0 \/ lo < 0 THEN -1 ELSE 16 * hi + lo

\* u32::from_str_radix(code, 16): an optional leading '+', then one digit at
\* least, all of them hexadecimal; -1 stands for Err(ParseIntError).
from_str_radix(code) ==
    LET ds == IF code # <<>> /\ Head(code) = "+" THEN Tail(code) ELSE code
    IN IF ds = <<>> THEN -1 ELSE HexRun(ds)

\* char::from_u32: None for a surrogate (D800-DFFF) or a value above 10FFFF.
from_u32(n) ==
    IF (n >= 55296 /\ n <= 57343) \/ n > 1114111 THEN None ELSE Some(Chr(n))

\* parse.rs:56-58, |(_, code)| char::from_u32(u32::from_str_radix(code, 16).unwrap()).unwrap()
unicode_char(m) ==
    LET n == from_str_radix(m[2]) IN
    IF n < 0 THEN Panics
    ELSE LET c == from_u32(n) IN
         IF c = None THEN Panics ELSE Returned(c.v)

\* parse.rs:35-40, the match of nom_bool on the matched keyword.
bool_value(t) ==
    CASE t = <<"t", "r", "u", "e">> -> Returned(Bool(TRUE))
      [] t = <<"f", "a", "l", "s", "e">> -> Returned(Bool(FALSE))
      [] OTHER -> Panics

\* A decimal in normal form: mant * 10^exp with mant not a multiple of ten, and
\* zero as (0, 0). Two f32 that compare equal have one normal form (-0.0 == 0.0).
RECURSIVE Decimal(_, _)
Decimal(mant, exp) ==
    IF mant = 0 THEN [mant |-> 0, exp |-> 0]
    ELSE IF mant % 10 = 0 THEN Decimal(mant \div 10, exp + 1)
    ELSE [mant |-> mant, exp |-> exp]

\* parse.rs:109-126: the literal minus, first, other, '.', digits is parsed to f32,
\* then multiplied by ten to the signed exponent. The f32 is kept as the decimal it
\* was written as: exact for an integer below 2^24, an idealisation of the rounding
\* of f32 otherwise.
number_value(m) ==
    LET minus == m[1][1]
        first == m[1][2]
        other == m[1][3]
        floating == m[2]
        exponent == m[3]
        int == <<first>> \o (IF other = None THEN <<>> ELSE <<other.v[1]>> \o other.v[2])
        frac == IF floating = None THEN <<>> ELSE floating.v
        sign == IF minus = None THEN 1 ELSE -1
        exp == IF exponent = None THEN 0
               ELSE (IF exponent.v[1] = "-" THEN -1 ELSE 1) * DecVal(exponent.v[2])
    IN Returned(Number(Decimal(sign * DecVal(int \o frac), exp - Len(frac))))

\* The closure f of map(p, f) applied to the value v that p matched.
Apply(f, v) ==
    CASE f = "Null" -> Returned(Null)
      [] f = "Bool" -> bool_value(v)
      [] f = "unicode" -> unicode_char(v)
      [] f = "collect" -> Returned(v)
      [] f = "String" -> Returned(String(v))
      [] f = "Array" -> Returned(Array(v))
      [] f = "Number" -> number_value(v)
      [] f = "Object" -> Returned(Object(v))

(* ------------------------------------------------------------------ *)
(* parse.rs: the productions                                           *)
(* ------------------------------------------------------------------ *)

\* ws, were the whitespace after the token left in place: what C8 rules out.
ws_leading_only(inner) == preceded(multispace0, inner)

\* delimited(multispace0, inner, multispace0)
ws(inner) == delimited(multispace0, inner, multispace0)

\* The order in which nom_parse tries the productions.
ProductionOrder ==
    <<"nom_null", "nom_bool", "nom_string", "nom_array", "nom_number", "nom_object">>

nom_parse == alt([i \in 1..Len(ProductionOrder) |-> call(ProductionOrder[i])])

\* nom_null, were the keyword optional: it would match at every position.
nom_null_optional == map(ws(opt(tag(<<"n", "u", "l", "l">>))), "Null")

nom_null == map(ws(tag(<<"n", "u", "l", "l">>)), "Null")

nom_bool ==
    map(alt(<<ws(tag(<<"t", "r", "u", "e">>)), ws(tag(<<"f", "a", "l", "s", "e">>))>>),
        "Bool")

nom_escaped_char ==
    preceded(
        char("\\"),
        alt(<<value("\"", char("\"")),
              value("\\", char("\\")),
              value(Chr(8), char("b")),
              value(Chr(12), char("f")),
              value("\n", char("n")),
              value("\r", char("r")),
              value("\t", char("t")),
              value("\t", char("t")),
              map(tuple(<<char("u"), take(4)>>), "unicode")>>))

nom_string ==
    map(delimited(
            preceded(multispace0, char("\"")),
            map(many0(alt(<<nom_escaped_char, none_of({"\""})>>)), "collect"),
            terminated(char("\""), multispace0)),
        "String")

nom_array ==
    map(delimited(
            ws(char("[")),
            terminated(separated_list0(char(","), call("nom_parse")), opt(char(","))),
            ws(char("]"))),
        "Array")

integer ==
    tuple(<<opt(tag(<<"-">>)),
            one_of(Digits),
            opt(tuple(<<one_of(NonZeroDigits), digit0>>))>>)

floating == preceded(char("."), digit0)

exponent ==
    preceded(tag_no_case(<<"e">>), tuple(<<alt(<<char("+"), char("-")>>), digit1>>))

nom_number ==
    map(delimited(
            multispace0,
            tuple(<<integer, opt(floating), opt(exponent)>>),
            multispace0),
        "Number")

\* nom_object, were the key any value the dispatcher parses: what C7 rules out.
nom_object_any_key ==
    map(delimited(
            ws(char("{")),
            terminated(
                separated_list0(
                    char(","),
                    pair(terminated(call("nom_parse"), char(":")), call("nom_parse"))),
                opt(char(","))),
            ws(char("}"))),
        "Object")

nom_object ==
    map(delimited(
            ws(char("{")),
            terminated(
                separated_list0(
                    char(","),
                    pair(terminated(call("nom_string"), char(":")), call("nom_parse"))),
                opt(char(","))),
            ws(char("}"))),
        "Object")

\* The production a call names.
Production(name) ==
    CASE name = "nom_parse" -> nom_parse
      [] name = "nom_null" -> nom_null
      [] name = "nom_bool" -> nom_bool
      [] name = "nom_string" -> nom_string
      [] name = "nom_array" -> nom_array
      [] name = "nom_number" -> nom_number
      [] name = "nom_object" -> nom_object

(* ------------------------------------------------------------------ *)
(* nom: what each combinator does on a text                            *)
(* ------------------------------------------------------------------ *)

\* The longest prefix of s made of characters of set, and what follows it.
RECURSIVE TakeWhile(_, _)
TakeWhile(set, s) ==
    IF s # <<>> /\ Head(s) \in set
    THEN LET r == TakeWhile(set, Tail(s)) IN Ok(r.rest, <<Head(s)>> \o r.val)
    ELSE Ok(s, <<>>)

\* char::to_lowercase on the letters tag_no_case is used with.
Lower(c) == IF c = "E" THEN "e" ELSE c

\* alt, from the results rs of its branches on the text s, in the order tried: the
\* first branch that does not return Err::Error decides; when all do, the error is
\* the last branch's (ParseError::or keeps the later error) with (input, Alt)
\* appended.
AltResult(rs, s) ==
    IF \E i \in 1..Len(rs) : rs[i].tag # "Err"
    THEN rs[CHOOSE i \in 1..Len(rs) :
                /\ rs[i].tag # "Err"
                /\ \A j \in 1..(i - 1) : rs[j].tag = "Err"]
    ELSE Err(Append(rs[Len(rs)].errors, Frame(s, "Nom(Alt)")))

RECURSIVE Run(_, _), RunTuple(_, _, _), RunMany0(_, _), RunSeparated(_, _, _)

\* tuple: the components from the i-th on, in sequence; the first that fails ends it.
RunTuple(ps, i, s) ==
    IF i > Len(ps) THEN Ok(s, <<>>)
    ELSE LET r == Run(ps[i], s) IN
         IF r.tag # "Ok" THEN r
         ELSE LET more == RunTuple(ps, i + 1, r.rest) IN
              IF more.tag # "Ok" THEN more
              ELSE Ok(more.rest, <<r.val>> \o more.val)

\* many0: p until it returns Err::Error, which is dropped.
RunMany0(p, s) ==
    LET r == Run(p, s) IN
    CASE r.tag = "Err" -> Ok(s, <<>>)
      [] r.tag = "Panic" -> r
      [] OTHER -> LET more == RunMany0(p, r.rest) IN
                  IF more.tag # "Ok" THEN more
                  ELSE Ok(more.rest, <<r.val>> \o more.val)

\* The loop of separated_list0, were the error of an element that follows a
\* separator returned instead of ending the list: what C9's amendment rules out.
RunSeparatedPropagating(sep, p, s) ==
    LET rs == Run(sep, s) IN
    CASE rs.tag = "Err" -> Ok(s, <<>>)
      [] rs.tag = "Panic" -> rs
      [] OTHER ->
           LET r == Run(p, rs.rest) IN
           IF r.tag # "Ok" THEN r
           ELSE LET more == RunSeparated(sep, p, r.rest) IN
                IF more.tag # "Ok" THEN more
                ELSE Ok(more.rest, <<r.val>> \o more.val)

\* The loop of separated_list0 after an element: a separator, then an element. When
\* either returns Err::Error the list ends BEFORE the separator and the error is
\* dropped.
RunSeparated(sep, p, s) ==
    LET rs == Run(sep, s) IN
    CASE rs.tag = "Err" -> Ok(s, <<>>)
      [] rs.tag = "Panic" -> rs
      [] OTHER ->
           LET r == Run(p, rs.rest) IN
           CASE r.tag = "Err" -> Ok(s, <<>>)
             [] r.tag = "Panic" -> r
             [] OTHER -> LET more == RunSeparated(sep, p, r.rest) IN
                         IF more.tag # "Ok" THEN more
                         ELSE Ok(more.rest, <<r.val>> \o more.val)

\* The parser p applied to the text s.
Run(p, s) ==
    CASE p.op = "multispace0" -> TakeWhile(Whitespace, s)
      [] p.op = "digit0" -> TakeWhile(Digits, s)
      [] p.op = "digit1" ->
           LET r == TakeWhile(Digits, s) IN
           IF r.val = <<>> THEN Err(<<Frame(s, "Nom(Digit)")>>) ELSE r
      [] p.op = "char" ->
           IF s # <<>> /\ Head(s) = p.c THEN Ok(Tail(s), p.c)
           ELSE Err(<<Frame(s, "Char(" \o p.c \o ")")>>)
      [] p.op = "tag" ->
           IF Len(s) >= Len(p.t) /\ SubSeq(s, 1, Len(p.t)) = p.t
           THEN Ok(SubSeq(s, Len(p.t) + 1, Len(s)), p.t)
           ELSE Err(<<Frame(s, "Nom(Tag)")>>)
      [] p.op = "tag_no_case" ->
           IF Len(s) >= Len(p.t) /\ \A i \in 1..Len(p.t) : Lower(s[i]) = Lower(p.t[i])
           THEN Ok(SubSeq(s, Len(p.t) + 1, Len(s)), SubSeq(s, 1, Len(p.t)))
           ELSE Err(<<Frame(s, "Nom(Tag)")>>)
      [] p.op = "take" ->
           IF Len(s) >= p.n THEN Ok(SubSeq(s, p.n + 1, Len(s)), SubSeq(s, 1, p.n))
           ELSE Err(<<Frame(s, "Nom(Eof)")>>)
      [] p.op = "one_of" ->
           IF s # <<>> /\ Head(s) \in p.list THEN Ok(Tail(s), Head(s))
           ELSE Err(<<Frame(s, "Nom(OneOf)")>>)
      [] p.op = "none_of" ->
           IF s # <<>> /\ Head(s) \notin p.list THEN Ok(Tail(s), Head(s))
           ELSE Err(<<Frame(s, "Nom(NoneOf)")>>)
      [] p.op = "opt" ->
           LET r == Run(p.p, s) IN
           CASE r.tag = "Ok" -> Ok(r.rest, Some(r.val))
             [] r.tag = "Err" -> Ok(s, None)
             [] OTHER -> r
      [] p.op = "map" ->
           LET r == Run(p.p, s) IN
           IF r.tag # "Ok" THEN r
           ELSE LET v == Apply(p.f, r.val) IN
                IF v.panic THEN Panicked ELSE Ok(r.rest, v.v)
      [] p.op = "value" ->
           LET r == Run(p.p, s) IN
           IF r.tag # "Ok" THEN r ELSE Ok(r.rest, p.v)
      [] p.op = "alt" -> AltResult([i \in 1..Len(p.ps) |-> Run(p.ps[i], s)], s)
      [] p.op = "tuple" -> RunTuple(p.ps, 1, s)
      [] p.op = "nth" ->
           LET r == Run(p.p, s) IN
           IF r.tag # "Ok" THEN r ELSE Ok(r.rest, r.val[p.i])
      [] p.op = "many0" -> RunMany0(p.p, s)
      [] p.op = "separated_list0" ->
           LET r == Run(p.p, s) IN
           CASE r.tag = "Err" -> Ok(s, <<>>)
             [] r.tag = "Panic" -> r
             [] OTHER -> LET more == RunSeparated(p.sep, p.p, r.rest) IN
                         IF more.tag # "Ok" THEN more
                         ELSE Ok(more.rest, <<r.val>> \o more.val)
      [] p.op = "call" -> Run(Production(p.name), s)

(* ------------------------------------------------------------------ *)
(* lib.rs: Error and the public entrypoints                            *)
(* ------------------------------------------------------------------ *)

\* Error::from_raw(data, raw)
from_raw(data, raw) == [errors |-> raw, data |-> data, raw_error |-> raw]

\* finish, were leftover text an error (a full-input parser): what C1 rules out.
finish_all_consumed(r, s) ==
    CASE r.tag = "Ok" /\ r.rest = <<>> -> [tag |-> "Ok", val |-> r.val, error |-> None]
      [] r.tag = "Ok" ->
           [tag |-> "Err", val |-> None,
            error |-> [errors |-> <<Frame(r.rest, "Nom(Eof)")>>, data |-> s,
                       raw_error |-> <<Frame(r.rest, "Nom(Eof)")>>]]
      [] r.tag = "Err" ->
           [tag |-> "Err", val |-> None,
            error |-> [errors |-> r.errors, data |-> s, raw_error |-> r.errors]]
      [] OTHER -> [tag |-> "Panic", val |-> None, error |-> None]

\* .finish().map(|(_, val)| val).map_err(|e| Error::from_raw(s, e)) on the IResult r
\* of a production on s: the remaining suffix is dropped.
finish(r, s) ==
    CASE r.tag = "Ok" -> [tag |-> "Ok", val |-> r.val, error |-> None]
      [] r.tag = "Err" -> [tag |-> "Err", val |-> None, error |-> from_raw(s, r.errors)]
      [] OTHER -> [tag |-> "Panic", val |-> None, error |-> None]

parse(s) == finish(Run(nom_parse, s), s)

parse_null(s) == finish(Run(nom_null, s), s)

parse_bool(s) == finish(Run(nom_bool, s), s)

parse_string(s) == finish(Run(nom_string, s), s)

parse_array(s) == finish(Run(nom_array, s), s)

parse_number(s) == finish(Run(nom_number, s), s)

parse_object(s) == finish(Run(nom_object, s), s)

\* The production behind each entrypoint.
EntryProduction ==
    [parse |-> "nom_parse", parse_null |-> "nom_null", parse_bool |-> "nom_bool",
     parse_string |-> "nom_string", parse_array |-> "nom_array",
     parse_number |-> "nom_number", parse_object |-> "nom_object"]

(* ------------------------------------------------------------------ *)
(* The state machine: a caller holds a text and calls one entrypoint   *)
(* ------------------------------------------------------------------ *)

NotCalled == [tag |-> "None", val |-> None, error |-> None]

\* The concatenation of a sequence of texts.
RECURSIVE Concat(_)
Concat(parts) == IF parts = <<>> THEN <<>> ELSE Head(parts) \o Concat(Tail(parts))

\* The sequences of at most n elements of S.
SeqsUpTo(S, n) == UNION {[1..k -> S] : k \in 0..n}

\* The number of pieces an input is put together from.
MaxParts == 3

\* The pieces of the inputs of Spec: whole tokens of each production, every
\* delimiter, whitespace, and a character no production starts with.
Fragments ==
    {<<"n", "u", "l", "l">>, <<"t", "r", "u", "e">>, <<"\"", "a", "\"">>,
     <<"1">>, <<"[">>, <<"]">>, <<"{">>, <<"}">>, <<",">>, <<":">>, <<" ">>, <<"x">>}

Init ==
    /\ shape \in SeqsUpTo(Fragments, MaxParts)
    /\ input = Concat(shape)
    /\ entry = "none"
    /\ result = NotCalled

\* The caller calls entrypoint e, which returns r.
Returns(e, r) ==
    /\ entry = "none"
    /\ entry' = e
    /\ result' = r
    /\ UNCHANGED <<input, shape>>

Parse == Returns("parse", parse(input))

ParseNull == Returns("parse_null", parse_null(input))

ParseBool == Returns("parse_bool", parse_bool(input))

ParseString == Returns("parse_string", parse_string(input))

ParseArray == Returns("parse_array", parse_array(input))

ParseNumber == Returns("parse_number", parse_number(input))

ParseObject == Returns("parse_object", parse_object(input))

Next ==
    \/ Parse
    \/ ParseNull
    \/ ParseBool
    \/ ParseString
    \/ ParseArray
    \/ ParseNumber
    \/ ParseObject

Spec == Init /\ [][Next]_vars

(* ------------------------------------------------------------------ *)
(* Claims checked under Spec                                           *)
(* ------------------------------------------------------------------ *)

\* The IResult of the production behind entrypoint e on the text s.
Produced(e, s) == Run(Production(EntryProduction[e]), s)

\* C1: whenever the production behind an entrypoint matches a prefix of the input,
\* the entrypoint returns Ok with the value the production parsed, whatever text
\* is left over: the remaining suffix never turns the success into an error.
C1_LeftoverDiscarded ==
    entry # "none" =>
        \A r \in {Produced(entry, input)} :
            r.tag = "Ok" => (result.tag = "Ok" /\ result.val = r.val)

\* C1's case: parse_object returned a value although text was left over.
C1_Witness ==
    /\ entry = "parse_object"
    /\ Produced(entry, input).tag = "Ok"
    /\ Produced(entry, input).rest # <<>>
    /\ result.tag = "Ok"
    /\ result.val = Object(<<>>)

(* ------------------------------------------------------------------ *)
(* The dispatcher: Parse on inputs made of the productions' tokens     *)
(* ------------------------------------------------------------------ *)

\* One token of each production, the delimiters and whitespace.
DispatchFragments ==
    {<<"n", "u", "l", "l">>, <<"t", "r", "u", "e">>, <<"\"", "a", "\"">>,
     <<"1">>, <<"[">>, <<"]">>, <<"{">>, <<"}">>, <<",">>, <<" ">>}

InitDispatch ==
    /\ shape \in SeqsUpTo(DispatchFragments, MaxParts)
    /\ input = Concat(shape)
    /\ entry = "none"
    /\ result = NotCalled

NextDispatch == Parse

SpecDispatch == InitDispatch /\ [][NextDispatch]_vars

\* The sequences in which the elements of S can be arranged.
RECURSIVE Arrangements(_)
Arrangements(S) ==
    IF S = {} THEN {<<>>}
    ELSE UNION {{<<x>> \o rest : rest \in Arrangements(S \ {x})} : x \in S}

\* Every order in which the six productions can be tried.
Orders == Arrangements(1..Len(ProductionOrder))

\* The IResult of each production on the text s, in the order of ProductionOrder.
Attempts(s) == [i \in 1..Len(ProductionOrder) |-> Run(call(ProductionOrder[i]), s)]

\* C10: on every input at most one of the six productions succeeds, and the
\* dispatcher returns the same value and remaining suffix (or fails alike)
\* whatever the order in which it tries them.
C10_DispatchOrderIrrelevant ==
    entry = "parse" =>
        \A rs \in {Attempts(input)} : \A dispatched \in {Run(nom_parse, input)} :
           /\ Cardinality({i \in 1..Len(ProductionOrder) : rs[i].tag = "Ok"}) <= 1
           /\ result = finish(dispatched, input)
           /\ \A o \in Orders :
                \A r \in {AltResult([i \in 1..Len(ProductionOrder) |-> rs[o[i]]], input)} :
                   /\ r.tag = dispatched.tag
                   /\ r.rest = dispatched.rest
                   /\ r.val = dispatched.val

\* C10's case: the dispatcher parsed an array whose element it dispatched as well.
C10_Witness ==
    /\ entry = "parse"
    /\ result.tag = "Ok"
    /\ result.val = Array(<<Null>>)

(* ------------------------------------------------------------------ *)
(* Numbers: inputs made of digits, sign, point and exponent            *)
(* ------------------------------------------------------------------ *)

NumberFragments ==
    {<<"0">>, <<"1">>, <<"2">>, <<"4">>, <<"5">>, <<"-">>, <<".">>, <<"e">>, <<"+">>, <<" ">>}

\* The text is the pieces, alone or as the only element of an array.
InitNumber ==
    /\ shape \in [parts : SeqsUpTo(NumberFragments, MaxParts), wrapped : BOOLEAN]
    /\ input = IF shape.wrapped THEN <<"[">> \o Concat(shape.parts) \o <<"]">>
               ELSE Concat(shape.parts)
    /\ entry = "none"
    /\ result = NotCalled

NextNumber ==
    \/ ParseNumber
    \/ ParseArray
    \/ Parse

SpecNumber == InitNumber /\ [][NextNumber]_vars

\* The text s without its leading whitespace and minus sign.
Unsigned(s) ==
    LET t == TakeWhile(Whitespace, s).rest
    IN IF t # <<>> /\ Head(t) = "-" THEN Tail(t) ELSE t

\* The integer part of s starts with two zeros, as in "00234".
LeadingDoubleZero(s) ==
    Len(Unsigned(s)) >= 2 /\ Unsigned(s)[1] = "0" /\ Unsigned(s)[2] = "0"

\* C2: parse_number fails on an input whose integer part is a 0 followed by
\* another 0 ("00234"); it does not succeed with a shorter prefix of the digits.
C2_DoubleZeroFails ==
    (entry = "parse_number" /\ LeadingDoubleZero(input)) => result.tag = "Err"

\* s is a nonzero digit followed by digits only.
PlainInteger(s) ==
    /\ s # <<>>
    /\ Head(s) \in NonZeroDigits
    /\ \A i \in 1..Len(s) : s[i] \in Digits

\* C3: on a nonzero digit followed by any digits ("10", "105", "45") nom_number
\* consumes the whole run and returns its decimal value, so that "[10]" parses as
\* Array([Number(10)]).
C3_WholeDigitRun ==
    /\ (entry = "parse_number" /\ ~shape.wrapped /\ PlainInteger(input)) =>
           /\ Run(nom_number, input).tag = "Ok"
           /\ Run(nom_number, input).rest = <<>>
           /\ result.tag = "Ok"
           /\ result.val = Number(Decimal(DecVal(input), 0))
    /\ (entry = "parse_array" /\ shape.wrapped /\ PlainInteger(Concat(shape.parts))) =>
           /\ result.tag = "Ok"
           /\ result.val = Array(<<Number(Decimal(DecVal(Concat(shape.parts)), 0))>>)

(* ------------------------------------------------------------------ *)
(* Strings: inputs that open a quote                                   *)
(* ------------------------------------------------------------------ *)

StringFragments ==
    {<<"\"">>, <<"\\">>, <<"u">>, <<"n">>, <<"x">>, <<"a">>, <<" ">>,
     <<"0", "d", "9", "e">>, <<"d", "8", "0", "0">>, <<"1", "2", "g", "4">>}

\* The text is an opening quote and the pieces.
InitString ==
    /\ shape \in SeqsUpTo(StringFragments, MaxParts)
    /\ input = <<"\"">> \o Concat(shape)
    /\ entry = "none"
    /\ result = NotCalled

NextString ==
    \/ ParseString
    \/ Parse

SpecString == InitString /\ [][NextString]_vars

\* The characters that may follow the backslash of an escape.
EscapeLetters == {"\"", "\\", "b", "f", "n", "r", "t", "u"}

\* s[i] is the first backslash of the string body that s opens.
FirstBackslash(s, i) ==
    /\ s # <<>>
    /\ Head(s) = "\""
    /\ i \in 2..Len(s)
    /\ s[i] = "\\"
    /\ \A j \in 2..(i - 1) : s[j] \notin {"\"", "\\"}

\* The body's first backslash is followed by a character that starts no escape.
BadEscape(s) ==
    \E i \in 2..(Len(s) - 1) : FirstBackslash(s, i) /\ s[i + 1] \notin EscapeLetters

\* C4: a backslash followed by a character that is not one of " \ b f n r t u
\* makes parse_string fail; the backslash is never taken as an ordinary character.
C4_BadEscapeFails ==
    (entry \in {"parse_string", "parse"} /\ BadEscape(input)) => result.tag = "Err"

\* The body's first backslash starts a \u escape whose four characters are not all
\* hexadecimal digits, or name a surrogate half.
BadUnicode(s) ==
    \E i \in 2..(Len(s) - 5) :
        /\ FirstBackslash(s, i)
        /\ s[i + 1] = "u"
        /\ \/ \E k \in 2..5 : HexVal(s[i + k]) < 0
           \/ HexRun(SubSeq(s, i + 2, i + 5)) \in 55296..57343

\* C5: a \u escape with a non-hexadecimal digit or naming a lone surrogate ends in
\* an ordinary parse failure; no input makes the parser panic.
C5_NoPanic ==
    entry # "none" =>
        /\ result.tag # "Panic"
        /\ BadUnicode(input) => result.tag = "Err"

(* ------------------------------------------------------------------ *)
(* Arrays: inputs written as a list of elements between brackets       *)
(* ------------------------------------------------------------------ *)

\* The number of elements of an array, and of pairs of an object.
MaxElems == 2

\* JSON values as they are written, each with the value it denotes.
ValidElements ==
    {[text |-> <<"n", "u", "l", "l">>, valid |-> TRUE, value |-> Null],
     [text |-> <<"t", "r", "u", "e">>, valid |-> TRUE, value |-> Bool(TRUE)],
     [text |-> <<"\"", "a", "\"">>, valid |-> TRUE, value |-> String(<<"a">>)],
     [text |-> <<"1">>, valid |-> TRUE, value |-> Number(Decimal(1, 0))],
     [text |-> <<"1", "0">>, valid |-> TRUE, value |-> Number(Decimal(10, 0))],
     [text |-> <<"[", "]">>, valid |-> TRUE, value |-> Array(<<>>)],
     [text |-> <<"[", "n", "u", "l", "l", "]">>, valid |-> TRUE, value |-> Array(<<Null>>)],
     [text |-> <<"{", "}">>, valid |-> TRUE, value |-> Object(<<>>)]}

\* Texts that are no JSON value.
BadElements ==
    {[text |-> t, valid |-> FALSE, value |-> None] :
        t \in {<<"x">>, <<"n", "u", "l">>, <<"-">>, <<"[", "x", "]">>, <<"{", "1", "}">>}}

\* An array text: its elements, whether a space precedes each element, whether
\* the separators are doubled (",,"), and the number of commas before the "]".
ArrayShapes ==
    [elems : SeqsUpTo(ValidElements \cup BadElements, MaxElems),
     space : BOOLEAN, doubled : BOOLEAN, trailing : 0..2]

Separator(sh) == IF sh.doubled THEN <<",", ",">> ELSE <<",">>

\* The array text from the end of its k-th element on.
RECURSIVE AfterElement(_, _)
AfterElement(sh, k) ==
    IF k >= Len(sh.elems)
    THEN [i \in 1..sh.trailing |-> ","] \o <<"]">>
    ELSE Separator(sh) \o (IF sh.space THEN <<" ">> ELSE <<>>)
            \o sh.elems[k + 1].text \o AfterElement(sh, k + 1)

\* The array text from the first character of its k-th element on.
FromElement(sh, k) == sh.elems[k].text \o AfterElement(sh, k)

ArrayText(sh) ==
    <<"[">> \o (IF sh.elems = <<>> THEN AfterElement(sh, 0)
                ELSE (IF sh.space THEN <<" ">> ELSE <<>>) \o FromElement(sh, 1))

InitArray ==
    /\ shape \in ArrayShapes
    /\ input = ArrayText(shape)
    /\ entry = "none"
    /\ result = NotCalled

NextArray ==
    \/ ParseArray
    \/ Parse

SpecArray == InitArray /\ [][NextArray]_vars

\* Two commas in a row are written somewhere in the array.
ConsecutiveCommas(sh) == (sh.doubled /\ Len(sh.elems) >= 2) \/ sh.trailing = 2

\* C6: n >= 0 valid JSON values between "[" and "]", separated by single commas,
\* with or without one trailing comma, parse as the Array of those n values in
\* source order; two consecutive commas make the parse fail.
C6_ArrayOfValues ==
    (entry = "parse_array" /\ \A i \in 1..Len(shape.elems) : shape.elems[i].valid) =>
        IF ConsecutiveCommas(shape)
        THEN result.tag = "Err"
        ELSE /\ result.tag = "Ok"
             /\ result.val = Array([i \in 1..Len(shape.elems) |-> shape.elems[i].value])

\* The k-th element of the array text is the first the dispatcher fails on: the
\* elements before it are values the dispatcher parses whole, separated by single
\* commas.
FailingElement(sh, k) ==
    /\ k \in 1..Len(sh.elems)
    /\ ~sh.doubled
    /\ \A j \in 1..(k - 1) :
         /\ sh.elems[j].valid
         /\ Run(nom_parse, sh.elems[j].text) = Ok(<<>>, sh.elems[j].value)
    /\ Run(nom_parse, FromElement(sh, k)).tag = "Err"

KeyTexts == {<<"\"", "a", "\"">>, <<"\"", "b", "\"">>, <<"1">>}

\* The key is written as a quoted text.
Quoted(k) == Head(k) = "\"" /\ k[Len(k)] = "\""

\* Values as they are written, with the value each denotes: the elements of the
\* arrays above, and an object that repeats a key.
ObjectValues ==
    {e \in ValidElements :
        e.value \in {Null, String(<<"a">>), Number(Decimal(1, 0)), Number(Decimal(10, 0)),
                     Array(<<>>)}}
    \cup
    {[text |-> <<"{", "\"", "a", "\"", ":", "1", ",", "\"", "a", "\"", ":", "[", "]", "}">>,
      valid |-> TRUE,
      value |-> Object(<<<<String(<<"a">>), Number(Decimal(1, 0))>>,
                         <<String(<<"a">>), Array(<<>>)>>>>)]}

\* An object text: its pairs in textual order, whether a space is written around
\* the colon, and whether a comma precedes the "}".
ObjectShapes ==
    [pairs : SeqsUpTo(KeyTexts \X ObjectValues, MaxElems), space : BOOLEAN, trailing : BOOLEAN]

\* The object text from its k-th pair on.
RECURSIVE FromPair(_, _)
FromPair(sh, k) ==
    IF k > Len(sh.pairs)
    THEN (IF sh.trailing THEN <<",">> ELSE <<>>) \o <<"}">>
    ELSE (IF k > 1 THEN <<",">> ELSE <<>>)
            \o sh.pairs[k][1]
            \o (IF sh.space THEN <<" ", ":", " ">> ELSE <<":">>)
            \o sh.pairs[k][2].text
            \o FromPair(sh, k + 1)

ObjectText(sh) == <<"{">> \o FromPair(sh, 1)

InitObject ==
    /\ shape \in ObjectShapes
    /\ input = ObjectText(shape)
    /\ entry = "none"
    /\ result = NotCalled

NextObject ==
    \/ ParseObject
    \/ Parse

SpecObject == InitObject /\ [][NextObject]_vars

\* The key of every pair of every Object in v, at any depth, is a String.
RECURSIVE StringKeyed(_)
StringKeyed(v) ==
    CASE v.type = "Array" -> \A i \in 1..Len(v.items) : StringKeyed(v.items[i])
      [] v.type = "Object" ->
           \A i \in 1..Len(v.pairs) :
              /\ v.pairs[i][1].type = "String"
              /\ StringKeyed(v.pairs[i][1])
              /\ StringKeyed(v.pairs[i][2])
      [] OTHER -> TRUE

\* The text between the quotes of a quoted key.
KeyBody(k) == SubSeq(k, 2, Len(k) - 1)

\* C7: an Object that parse_object returns holds one pair per key : value of the
\* text, in textual order, duplicate keys kept as separate pairs, and every key,
\* at any nesting level, is the String variant.
C7_PairsInOrderStringKeys ==
    (entry \in {"parse_object", "parse"} /\ result.tag = "Ok") =>
        /\ \A i \in 1..Len(shape.pairs) : Quoted(shape.pairs[i][1])
        /\ result.val =
              Object([i \in 1..Len(shape.pairs) |->
                         <<String(KeyBody(shape.pairs[i][1])), shape.pairs[i][2].value>>])
        /\ StringKeyed(result.val)

\* C7's case: parse_object returned an Object whose two pairs have the same key,
\* the second holding an object that repeats a key as well.
C7_Witness ==
    /\ entry = "parse_object"
    /\ result.tag = "Ok"
    /\ Len(result.val.pairs) = 2
    /\ result.val.pairs[1][1] = result.val.pairs[2][1]
    /\ result.val.pairs[1][2] # result.val.pairs[2][2]
    /\ result.val.pairs[2][2].type = "Object"
    /\ Len(result.val.pairs[2][2].pairs) = 2

(* ------------------------------------------------------------------ *)
(* Whitespace: inputs written as tokens with whitespace between them   *)
(* ------------------------------------------------------------------ *)

\* The number of tokens written inside the frame of an input.
MaxToks == 2

\* Every delimiter, a keyword of each literal, a number, and a string whose
\* quotes enclose a space.
Tokens ==
    {<<"[">>, <<"]">>, <<"{">>, <<"}">>, <<":">>, <<",">>,
     <<"n", "u", "l", "l">>, <<"f", "a", "l", "s", "e">>, <<"1">>,
     <<"\"", " ", "a", "\"">>}

\* The tokens an input starts and ends with: none, the brackets of an array, or
\* the opening of an object up to the colon of its first pair, and its brace.
Frames ==
    {[open |-> <<>>, close |-> <<>>],
     [open |-> <<<<"[">>>>, close |-> <<<<"]">>>>],
     [open |-> <<<<"{">>, <<"\"", " ", "a", "\"">>, <<":">>>>, close |-> <<<<"}">>>>]}

\* The runs of whitespace written into a gap.
WhitespaceRuns == {<<" ">>, <<"\t", "\n", "\r", " ">>}

\* The tokens of a shape, in order.
TokensOf(sh) == sh.frame.open \o sh.toks \o sh.frame.close

\* The last gap of the longest input: that of an object with MaxToks tokens inside.
MaxGap == MaxToks + 4

\* An input: its tokens, the whitespace run, and the gaps it is written into
\* (gap 0 is before the first token, gap i after the i-th): one gap, or all.
WsShapes ==
    {sh \in [frame : Frames, toks : SeqsUpTo(Tokens, MaxToks), fill : WhitespaceRuns,
             gaps : {{g} : g \in 0..MaxGap} \cup {0..MaxGap}] :
        /\ TokensOf(sh) # <<>>
        /\ \E g \in sh.gaps : g <= Len(TokensOf(sh))
        /\ (\A g \in sh.gaps : g <= Len(TokensOf(sh))) \/ sh.gaps = 0..MaxGap}

Numeral(t) == Head(t) \in Digits

\* The text of the tokens ts from the i-th on, with the run fill written into the
\* gaps of the set gaps. Two numerals in a row are two tokens only while
\* whitespace separates them: one space is written between them in any case.
RECURSIVE Spaced(_, _, _, _)
Spaced(ts, i, gaps, fill) ==
    IF i > Len(ts) THEN <<>>
    ELSE ts[i]
         \o (IF i \in gaps THEN fill
             ELSE IF i < Len(ts) /\ Numeral(ts[i]) /\ Numeral(ts[i + 1]) THEN <<" ">>
             ELSE <<>>)
         \o Spaced(ts, i + 1, gaps, fill)

\* The input of a shape, and the same tokens with no whitespace added.
WsText(sh) == (IF 0 \in sh.gaps THEN sh.fill ELSE <<>>) \o Spaced(TokensOf(sh), 1, sh.gaps, sh.fill)

Unspaced(sh) == Spaced(TokensOf(sh), 1, {}, <<>>)

InitWs ==
    /\ shape \in WsShapes
    /\ input = WsText(shape)
    /\ entry = "none"
    /\ result = NotCalled

NextWs ==
    \/ Parse
    \/ ParseArray
    \/ ParseObject

SpecWs == InitWs /\ [][NextWs]_vars

\* What entrypoint e returns on the text s.
Call(e, s) ==
    CASE e = "parse" -> parse(s)
      [] e = "parse_null" -> parse_null(s)
      [] e = "parse_bool" -> parse_bool(s)
      [] e = "parse_string" -> parse_string(s)
      [] e = "parse_array" -> parse_array(s)
      [] e = "parse_number" -> parse_number(s)
      [] e = "parse_object" -> parse_object(s)

\* C8: whitespace (space, tab, newline, carriage return) written before or after
\* any delimiter, keyword, number or string token changes neither whether the
\* input parses nor the value returned, and whitespace between the quotes of a
\* string is kept in the String.
C8_WhitespaceAroundTokens ==
    entry # "none" =>
        \A plain \in {Call(entry, Unspaced(shape))} :
            /\ result.tag = plain.tag
            /\ result.val = plain.val
            /\ (result.tag = "Ok" /\ TokensOf(shape)[1] = <<"\"", " ", "a", "\"">>)
                  => result.val = String(<<" ", "a">>)

\* C8's case: an object whose every token is surrounded by all four whitespace
\* characters parsed to the value it has without them, the key keeping its space.
C8_Witness ==
    /\ entry = "parse_object"
    /\ Len(shape.fill) > 1
    /\ shape.gaps = 0..MaxGap
    /\ result.tag = "Ok"
    /\ result.val = Object(<<<<String(<<" ", "a">>), Null>>>>)

====
